---- MODULE Spec2Model ----
(***************************************************************************)
(* The QUIC framed protocol of the configurator: the mutex-serialised      *)
(* session (pkg/protocol/quic/protocol.go, QuicProtocol) and the           *)
(* channel-routed controller (pkg/controller/quic.go, Controller), both    *)
(* run against one device on one duplex byte stream.                       *)
(***************************************************************************)
EXTENDS Integers, Sequences, FiniteSets, TLC

(* ------------------------------ bounds --------------------------------- *)
\* calls issued over the whole session (all callers together)
MaxCalls == 2
\* unsolicited device writes (log lines, noise bytes, bad frames) per session
MaxUnsolicited == 1
\* log frames the device sends in the log-flood specification
MaxFlood == 102
\* unread bytes on the line at which the device holds back its next write
MaxBacklog == 0
\* the framing check tries payload lengths up to this far from 0 and from 65535
MaxExtra == 5

(* ----------------------------- constants ------------------------------- *)
QuicCmdInvalid == 0
QuicCmdGet == 1
QuicCmdSet == 2
QuicCmdLog == 3
QuicCmdCalImu == 4
QuicCmdBlackbox == 5
\* the Max sentinel closing the command enumeration
QuicCmdMax == 6

QuicFlagNone == 0
QuicFlagError == 1
QuicFlagStreaming == 2
QuicFlagExit == 4

QuicValInfo == 1
QuicValProfile == 2

\* '#'
Magic == 35
\* the protocol version under which Blackbox packets are pushes
QuicProtocolVersion1 == 1
\* capacity of the Log channel (make(chan string, 100))
LogCap == 100
\* capacity of the controller's blackbox channel
BlackboxCap == 100

Callers == {1, 2}
\* the value tag each caller asks for
TagOf(c) == IF c = 1 THEN QuicValInfo ELSE QuicValProfile
\* the value a caller's target holds before a Get, the value a caller Sets,
\* and the value the device answers with (its accepted / stored value)
TargetInit == 0
SetVal == 5
DevVal == 7
\* the characters of the device's error message and of its log line
ErrText == <<101>>
LogText == <<98>>

(* ------------------------------ helpers -------------------------------- *)
Take(s, n) == SubSeq(s, 1, n)
Drop(s, n) == SubSeq(s, n + 1, Len(s))
Rep(n, x) == [i \in 1..n |-> x]
Min(a, b) == IF a < b THEN a ELSE b

NoErr == [kind |-> "nil", text |-> <<>>]
Err(k) == [kind |-> k, text |-> <<>>]
\* errors.New(msg)
MsgErr(s) == [kind |-> "msg", text |-> s]

NoPacket == [ok |-> FALSE, cmd |-> 0, flag |-> 0, len |-> 0,
             payload |-> <<>>, wire |-> <<>>, rid |-> 0]
NoReq == [op |-> "none", cmd |-> 0, tag |-> 0, val |-> 0, rid |-> 0]
NoRes == [err |-> NoErr, v |-> 0]
NoSent == [ok |-> FALSE, n |-> 0, hdr |-> <<>>, written |-> 0, err |-> NoErr]

(* ------------------------------ the codec ------------------------------ *)
\* header byte 1: command in the low 5 bits, flag in the high 3 bits
DecodeCmd(b) == b % 32
DecodeFlag(b) == b \div 32
DecodeLen(hi, lo) == (hi * 256 + lo) % 65536

\* the four header bytes Send / SendQUIC write before the payload
EncodeHeader(cmd, n) == <<Magic, cmd % 256, (n \div 256) % 256, n % 256>>
\* the largest payload length the two length bytes can hold
MaxPayload == 65535

\* CBOR, the subset the session exchanges: an unsigned integer below 24 is
\* one byte; a text string of up to 23 characters is 0x60+length, then the
\* characters.
CborUint(n) == <<n>>
CborString(s) == <<96 + Len(s)>> \o s
CborDecodeUint(s) ==
    IF Len(s) >= 1 /\ s[1] < 24
    THEN [ok |-> TRUE, val |-> s[1], rest |-> Drop(s, 1)]
    ELSE [ok |-> FALSE, val |-> 0, rest |-> s]
CborDecodeString(s) ==
    IF Len(s) >= 1 /\ s[1] >= 96 /\ s[1] <= 119 /\ Len(s) >= 1 + (s[1] - 96)
    THEN [ok |-> TRUE, val |-> SubSeq(s, 2, 1 + (s[1] - 96)),
          rest |-> Drop(s, 1 + (s[1] - 96))]
    ELSE [ok |-> FALSE, val |-> <<>>, rest |-> s]
\* the empty map, 0xa0: the one item of the subset that decodes into a struct
CborDecodeMap(s) == Len(s) >= 1 /\ s[1] = 160
\* decoding into interface{}: any well-formed item of the subset
CborDecodeAny(s) == CborDecodeUint(s).ok \/ CborDecodeString(s).ok \/ CborDecodeMap(s)

(* ------------------------------ the device ----------------------------- *)
ReplyKinds ==
    {"ok", "badtag", "error", "errbad", "exit", "stream0", "stream1", "streamN", "v1"}

\* The sessions checked, each against one kind of device: one that answers
\* every request with a plain reply, good or bad; one that answers with
\* streamed replies or ends the session; one that also pushes log lines; a
\* noisy line (stray bytes, frames with a command outside the enumeration); a
\* line that breaks (end of stream, also in the middle of a reply); a device
\* that leaves requests unanswered; one that reports protocol version 1 or a
\* later one and pushes Blackbox telemetry; and one that sends CalImu packets
\* nobody asked for.
DeviceProfiles ==
    { [name |-> "answers", replies |-> {"ok", "badtag", "error", "errbad"},
       pushes |-> {}, drops |-> FALSE],
      [name |-> "streams", replies |-> {"ok", "exit", "stream0", "stream1", "streamN"},
       pushes |-> {}, drops |-> FALSE],
      [name |-> "logs", replies |-> {"ok", "exit"}, pushes |-> {"log", "badlog"},
       drops |-> FALSE],
      [name |-> "noisy", replies |-> {"ok"}, pushes |-> {"noise", "badcmd"},
       drops |-> FALSE],
      [name |-> "broken", replies |-> {"ok"}, pushes |-> {"eof", "short"},
       drops |-> FALSE],
      [name |-> "silent", replies |-> {"ok"}, pushes |-> {}, drops |-> TRUE],
      [name |-> "telemetry", replies |-> {"ok", "v1"}, pushes |-> {"blackbox"},
       drops |-> FALSE],
      [name |-> "imu", replies |-> {"ok"}, pushes |-> {"calimu"}, drops |-> FALSE] }

(* ------------------------------- state --------------------------------- *)
VARIABLES
    impl,        \* which implementation runs the session: "proto" | "ctrl"
    device,      \* what the device at the other end does in this session
    rx,          \* bytes the device has written and the host has not read
    rxOf,        \* ghost, parallel to rx: the request each byte answers (0: none,
                 \* negative: a request whose caller has timed out)
    rxEOF,       \* the transport has signalled end-of-stream
    tx,          \* request frames the host has written, not yet seen by the device
    pc,          \* each caller's position
    req,         \* each caller's current request
    res,         \* each caller's result: the error and the target value
    handed,      \* ghost: the packet read() / the channel gave the caller's Send
    sendRet,     \* ghost: the packet Send / SendQUIC returned (NoPacket: nil)
    packetMu,    \* QuicProtocol.packetMu: the caller holding it, 0 when free
    p,           \* the packet the mutex holder is reading
    bw,          \* the bufio.Writer in front of the pipe: bytes not flushed
    Log,         \* the Log channel's buffer
    logOpen,     \* the Log channel has not been closed
    info,        \* cached QuicProtocolVersion, 0 while no info is cached
    crashed,     \* the process died (panic or log.Fatal)
    quicChannel, \* commands with a channel in the controller's routing map
    rdPc,        \* the controller's reader: "read" | "push"
    rdVal,       \* the decoded line the controller's reader is pushing
    QuicBlackbox,\* number of values queued on the controller's blackbox channel
    calls,       \* calls issued so far; the id of the latest request
    unsol,       \* unsolicited device writes so far
    conforming,  \* ghost: the device answered every request once, nothing else
    dropped,     \* ghost: the packet the controller's reader dropped last, with
                 \* whether its request had timed out by then
    detected,    \* what Detect returned to each caller: "none" | "true" | "false"
    sent         \* the frame the last call of the framing check wrote

vars == <<impl, device, rx, rxOf, rxEOF, tx, pc, req, res, handed, sendRet, packetMu, p,
          bw, Log, logOpen, info, crashed, quicChannel, rdPc, rdVal, QuicBlackbox,
          calls,
          unsol, conforming, dropped, detected, sent>>

Init ==
    /\ impl \in {"proto", "ctrl"}
    /\ device \in DeviceProfiles
    /\ rx = <<>> /\ rxOf = <<>> /\ rxEOF = FALSE
    /\ tx = <<>>
    /\ pc = [c \in Callers |-> "idle"]
    /\ req = [c \in Callers |-> NoReq]
    /\ res = [c \in Callers |-> NoRes]
    /\ handed = [c \in Callers |-> NoPacket]
    /\ sendRet = [c \in Callers |-> NoPacket]
    /\ packetMu = 0
    /\ p = NoPacket
    /\ bw = <<>>
    /\ Log = <<>> /\ logOpen = TRUE
    /\ info = 0
    /\ crashed = FALSE
    /\ quicChannel = {}
    /\ rdPc = "read" /\ rdVal = <<>> /\ QuicBlackbox = 0
    /\ calls = 0 /\ unsol = 0
    /\ conforming = TRUE
    /\ dropped = {}
    /\ detected = [c \in Callers |-> "none"]
    /\ sent = NoSent

(* ------------------- QuicProtocol: the pure parts ---------------------- *)
\* readHeader on the unread bytes s: "block" while the transport has nothing
\* (Read blocks, or returns 0 bytes and the loop goes round), "err" with the
\* bytes consumed, or "ok" with the decoded header.
readHeader(s, eof) ==
    IF s = <<>>
    THEN [st |-> IF eof THEN "err" ELSE "block", err |-> Err("EOF"), n |-> 0,
          cmd |-> 0, flag |-> 0, len |-> 0]
    ELSE IF s[1] # Magic
    THEN [st |-> "err", err |-> Err("ErrInvalidMagic"), n |-> 1,
          cmd |-> 0, flag |-> 0, len |-> 0]
    ELSE IF Len(s) < 4
    THEN [st |-> IF eof THEN "err" ELSE "block", err |-> Err("EOF"), n |-> Len(s),
          cmd |-> 0, flag |-> 0, len |-> 0]
    ELSE [st |-> "ok", err |-> NoErr, n |-> 4,
          cmd |-> DecodeCmd(s[2]), flag |-> DecodeFlag(s[2]),
          len |-> DecodeLen(s[3], s[4])]

\* io.CopyN(dst, rw, n) with avail unread bytes on the transport: n bytes and no
\* error; what there is and io.EOF once the stream has ended; otherwise it is
\* blocked in Read, having copied what there is
CopyN(avail, n, eof) ==
    IF avail >= n THEN [st |-> "ok", n |-> n, err |-> NoErr]
    ELSE IF eof THEN [st |-> "ok", n |-> avail, err |-> Err("EOF")]
    ELSE [st |-> "block", n |-> avail, err |-> NoErr]

\* the retry loop's exit with ErrShortRead: CopyN returned no error and no byte
\* (io.EOF makes the loop continue before this test)
ShortReadFails(r) == r.st = "ok" /\ r.err = NoErr /\ r.n = 0

\* (mutant) the range check without the test for Invalid
IsInvalidCmdMaxOnly(cmd) == cmd >= QuicCmdMax

\* the range check of readPacket
IsInvalidCmd(cmd) == cmd >= QuicCmdMax \/ cmd = QuicCmdInvalid

\* (mutant) the Log case of the switch testing the wrong command
IsLogWrongCmd(cmd) == cmd = QuicCmdCalImu

\* (mutant) the Blackbox case of the switch without the test of the cached info
IsBlackboxPushAnyVersion(cmd, i) == cmd = QuicCmdBlackbox

\* the two commands readPacket keeps for itself
IsLog(cmd) == cmd = QuicCmdLog
IsBlackboxPush(cmd, i) == (i = 0 \/ i = QuicProtocolVersion1) /\ cmd = QuicCmdBlackbox

\* select { case proto.Log <- val: default: } on an open channel
LogPush(q, v) == IF Len(q) < LogCap THEN Append(q, v) ELSE q

\* (mutant) Send without the test of the Error flag
SendResultIgnoresFlag(k) == [pkt |-> k, err |-> NoErr]

\* Send, once read() has returned packet k
SendResult(k) ==
    IF k.flag = QuicFlagError
    THEN LET d == CborDecodeString(k.payload)
         IN  IF d.ok THEN [pkt |-> NoPacket, err |-> MsgErr(d.val)]
             ELSE [pkt |-> NoPacket, err |-> Err("decode")]
    ELSE [pkt |-> k, err |-> NoErr]

\* (mutant) Get / Set decoding the echoed tag without comparing it
TagCheckNoCompare(tag, payload) ==
    IF CborDecodeUint(Take(payload, Min(1, Len(payload)))).ok THEN NoErr
    ELSE Err("decode")

\* Get / Set: the echoed tag, decoded from the first payload byte alone
TagCheck(tag, payload) ==
    LET t == CborDecodeUint(Take(payload, Min(1, Len(payload))))
    IN  IF ~t.ok THEN Err("decode")
        ELSE IF tag # t.val THEN Err("tagMismatch")
        ELSE NoErr

\* GetValue / SetValue on the packet Send returned: the error, and the
\* caller's target (v0 before the call)
ValueResult(tag, v0, payload) ==
    LET e == TagCheck(tag, payload)
        d == CborDecodeUint(Drop(payload, Min(1, Len(payload))))
    IN  IF e # NoErr THEN [err |-> e, v |-> v0]
        ELSE IF ~d.ok THEN [err |-> Err("decode"), v |-> v0]
        ELSE [err |-> NoErr, v |-> d.val]

\* (mutant) Info storing the decoded info whatever GetValue returned
InfoAlwaysCaches(old, r) == r.v

\* Info: the cached info (its protocol version) after GetValue returned r
Info(old, r) == IF r.err = NoErr THEN r.v ELSE old

\* Detect: Info's error reduced to a boolean
Detect(e) == IF e = NoErr THEN "true" ELSE "false"

\* the session's cache and Detect's return value once the call with request q
\* has ended with result r
AfterCall(q, r) ==
    [info |-> IF q.op = "detect" THEN Info(info, r) ELSE info,
     detected |-> IF q.op = "detect" THEN Detect(r.err) ELSE "none"]

(* ------------------- QuicProtocol: the operations ---------------------- *)
RequestData(op, tag) ==
    IF op = "set" THEN CborUint(tag) \o CborUint(SetVal) ELSE CborUint(tag)
RequestCmd(op) == IF op = "set" THEN QuicCmdSet ELSE QuicCmdGet
MayCall(c) == pc[c] = "idle" /\ calls < MaxCalls
NewReq(op, tag) ==
    [op |-> op, cmd |-> RequestCmd(op), tag |-> tag,
     val |-> IF op = "set" THEN SetVal ELSE TargetInit, rid |-> calls + 1]

\* GetValue / SetValue up to the write of the request frame in Send
ProtoSend(c, op, tag) ==
    /\ ~crashed /\ impl = "proto" /\ MayCall(c)
    /\ LET r == NewReq(op, tag)
           data == RequestData(op, tag)
       IN  /\ tx' = Append(tx, [bytes |-> EncodeHeader(r.cmd, Len(data)) \o data,
                                rid |-> r.rid])
           /\ req' = [req EXCEPT ![c] = r]
           /\ res' = [res EXCEPT ![c] = [err |-> NoErr, v |-> r.val]]
    /\ pc' = [pc EXCEPT ![c] = "sent"]
    /\ calls' = calls + 1
    /\ UNCHANGED <<impl, device, detected, sent, rx, rxOf, rxEOF, handed, sendRet, packetMu, p, bw, Log,
                   logOpen, info, crashed, quicChannel, rdPc, rdVal, QuicBlackbox,
                   unsol, conforming, dropped>>

\* GetValue / SetValue / GetQUIC / SetQUIC has returned: the caller takes the
\* result and is free to call again
CallReturn(c) ==
    /\ ~crashed /\ pc[c] = "done"
    /\ pc' = [pc EXCEPT ![c] = "idle"]
    /\ req' = [req EXCEPT ![c] = NoReq]
    /\ res' = [res EXCEPT ![c] = NoRes]
    /\ handed' = [handed EXCEPT ![c] = NoPacket]
    /\ sendRet' = [sendRet EXCEPT ![c] = NoPacket]
    /\ detected' = [detected EXCEPT ![c] = "none"]
    /\ UNCHANGED <<impl, device, sent, rx, rxOf, rxEOF, tx, packetMu, p, bw, Log, logOpen, info,
                   crashed, quicChannel, rdPc, rdVal, QuicBlackbox, calls, unsol,
                   conforming, dropped>>

\* Close(): close(proto.Log), which panics on a channel already closed; it
\* takes no lock and may run while another caller is reading
Close(c) ==
    /\ ~crashed /\ impl = "proto" /\ MayCall(c)
    /\ calls' = calls + 1
    /\ logOpen' = FALSE
    /\ crashed' = ~logOpen
    /\ UNCHANGED <<impl, device, detected, sent, rx, rxOf, rxEOF, tx, pc, req, res, handed,
                   sendRet, packetMu, p, bw, Log, info, quicChannel, rdPc, rdVal,
                   QuicBlackbox, unsol, conforming, dropped>>

\* (mutant) read() without its mutex
MayLockAlways(c) == TRUE

\* packetMu.Lock() returns only while no caller holds the mutex
MayLock(c) == packetMu = 0

\* read(): packetMu.Lock()
ProtoLock(c) ==
    /\ ~crashed /\ impl = "proto" /\ pc[c] = "sent" /\ MayLock(c)
    /\ packetMu' = c
    /\ pc' = [pc EXCEPT ![c] = "hdr"]
    /\ UNCHANGED <<impl, device, detected, sent, rx, rxOf, rxEOF, tx, req, res, handed, sendRet, p, bw,
                   Log, logOpen, info, crashed, quicChannel, rdPc, rdVal,
                   QuicBlackbox, calls, unsol, conforming, dropped>>

\* read() returns error e after n more bytes were consumed: the mutex is
\* released and Send, Get/Set and GetValue/SetValue pass the error up
ProtoFail(c, e, n) ==
    /\ rx' = Drop(rx, n) /\ rxOf' = Drop(rxOf, n)
    /\ res' = [res EXCEPT ![c] = [err |-> e, v |-> req[c].val]]
    /\ info' = AfterCall(req[c], [err |-> e, v |-> req[c].val]).info
    /\ detected' = [detected EXCEPT ![c] =
                       AfterCall(req[c], [err |-> e, v |-> req[c].val]).detected]
    /\ pc' = [pc EXCEPT ![c] = "done"]
    /\ packetMu' = 0 /\ p' = NoPacket /\ bw' = <<>>
    /\ UNCHANGED <<impl, device, sent, rxEOF, tx, req, handed, sendRet, Log, logOpen,
                   crashed, quicChannel, rdPc, rdVal, QuicBlackbox, calls, unsol,
                   conforming, dropped>>

\* a panic (send on, or close of, the closed Log channel) ends the process
ProtoPanic(n) ==
    /\ crashed' = TRUE
    /\ rx' = Drop(rx, n) /\ rxOf' = Drop(rxOf, n)
    /\ UNCHANGED <<impl, device, detected, sent, rxEOF, tx, pc, req, res, handed, sendRet, packetMu, p,
                   bw, Log, logOpen, info, quicChannel, rdPc, rdVal,
                   QuicBlackbox, calls, unsol, conforming, dropped>>

\* readPacket returns packet k after n more bytes were consumed (closing the
\* Log channel on the Exit flag), read() returns it and releases the mutex,
\* and Send and GetValue/SetValue finish on it
ProtoDeliver(c, k, n) ==
    IF k.flag = QuicFlagExit /\ ~logOpen
    THEN ProtoPanic(n)
    ELSE LET sr == SendResult(k)
             r == IF sr.err # NoErr THEN [err |-> sr.err, v |-> req[c].val]
                  ELSE ValueResult(req[c].tag, req[c].val, sr.pkt.payload)
         IN  /\ rx' = Drop(rx, n) /\ rxOf' = Drop(rxOf, n)
             /\ logOpen' = (logOpen /\ k.flag # QuicFlagExit)
             /\ handed' = [handed EXCEPT ![c] = k]
             /\ sendRet' = [sendRet EXCEPT ![c] = sr.pkt]
             /\ res' = [res EXCEPT ![c] = r]
             /\ info' = AfterCall(req[c], r).info
             /\ detected' = [detected EXCEPT ![c] = AfterCall(req[c], r).detected]
             /\ pc' = [pc EXCEPT ![c] = "done"]
             /\ packetMu' = 0 /\ p' = NoPacket /\ bw' = <<>>
             /\ UNCHANGED <<impl, device, sent, rxEOF, tx, req, Log, crashed, quicChannel,
                            rdPc, rdVal, QuicBlackbox, calls, unsol, conforming,
                            dropped>>

\* readPacket: readHeader and the command range check
ProtoReadHeader(c) ==
    /\ ~crashed /\ impl = "proto" /\ pc[c] = "hdr"
    /\ LET h == readHeader(rx, rxEOF)
       IN  /\ h.st # "block"
           /\ IF h.st = "err" THEN ProtoFail(c, h.err, h.n)
              ELSE IF IsInvalidCmd(h.cmd) THEN ProtoFail(c, Err("ErrInvalidCommand"), 4)
              ELSE /\ p' = [ok |-> TRUE, cmd |-> h.cmd, flag |-> h.flag, len |-> h.len,
                            payload |-> <<>>, wire |-> <<>>, rid |-> rxOf[1]]
                   /\ bw' = <<>>
                   /\ rx' = Drop(rx, 4) /\ rxOf' = Drop(rxOf, 4)
                   /\ pc' = [pc EXCEPT ![c] = "payload"]
                   /\ UNCHANGED <<impl, device, detected, sent, rxEOF, tx, req, res, handed, sendRet,
                                  packetMu, Log, logOpen, info, crashed,
                                  quicChannel, rdPc, rdVal, QuicBlackbox, calls,
                                  unsol, conforming, dropped>>

\* readPacket's switch on a complete non-streaming packet k, n bytes consumed
ProtoDispatch(c, k, n) ==
    IF IsLog(k.cmd)
    THEN LET d == CborDecodeString(k.payload)
         IN  IF ~d.ok THEN ProtoFail(c, Err("decode"), n)
             ELSE IF ~logOpen THEN ProtoPanic(n)
             ELSE /\ Log' = LogPush(Log, d.val)
                  /\ rx' = Drop(rx, n) /\ rxOf' = Drop(rxOf, n)
                  /\ pc' = [pc EXCEPT ![c] = "hdr"]
                  /\ p' = NoPacket
                  /\ UNCHANGED <<impl, device, detected, sent, rxEOF, tx, req, res, handed, sendRet,
                                 packetMu, bw, logOpen, info, crashed, quicChannel,
                                 rdPc, rdVal, QuicBlackbox, calls, unsol,
                                 conforming, dropped>>
    ELSE IF IsBlackboxPush(k.cmd, info)
    THEN /\ rx' = Drop(rx, n) /\ rxOf' = Drop(rxOf, n)
         /\ pc' = [pc EXCEPT ![c] = "hdr"]
         /\ p' = NoPacket
         /\ UNCHANGED <<impl, device, detected, sent, rxEOF, tx, req, res, handed, sendRet, packetMu, bw,
                        Log, logOpen, info, crashed, quicChannel, rdPc, rdVal,
                        QuicBlackbox, calls, unsol, conforming, dropped>>
    ELSE ProtoDeliver(c, k, n)

\* readPacket: the payload of the first frame, then the switch
ProtoReadPayload(c) ==
    /\ ~crashed /\ impl = "proto" /\ pc[c] = "payload"
    /\ IF p.flag = QuicFlagStreaming
       THEN \* io.CopyN(bw, rw, len): into the buffered pipe writer
            IF Len(rx) >= p.len
            THEN /\ bw' = Take(rx, p.len)
                 /\ p' = [p EXCEPT !.wire = Take(rx, p.len)]
                 /\ rx' = Drop(rx, p.len) /\ rxOf' = Drop(rxOf, p.len)
                 \* Log and Blackbox decode from the pipe's read end, to which
                 \* nothing has been written yet
                 /\ pc' = [pc EXCEPT ![c] =
                             IF IsLog(p.cmd) \/ IsBlackboxPush(p.cmd, info)
                             THEN "pipeRead" ELSE "stream"]
                 /\ UNCHANGED <<impl, device, detected, sent, rxEOF, tx, req, res, handed, sendRet,
                                packetMu, Log, logOpen, info, crashed, quicChannel,
                                rdPc, rdVal, QuicBlackbox, calls, unsol,
                                conforming, dropped>>
            ELSE rxEOF /\ ProtoFail(c, Err("EOF"), Len(rx))
       ELSE \* the retry loop into a bytes.Buffer: one io.CopyN per turn
            LET rem == p.len - Len(p.payload)
                r == CopyN(Len(rx), rem, rxEOF)
                got == p.payload \o Take(rx, r.n)
            IN  IF rem = 0 THEN ProtoDispatch(c, p, 0)
                ELSE IF ShortReadFails(r) THEN ProtoFail(c, Err("ErrShortRead"), r.n)
                ELSE IF r.st = "ok" /\ r.err = NoErr
                THEN ProtoDispatch(c, [p EXCEPT !.payload = got, !.wire = got], r.n)
                ELSE \* CopyN is blocked part-way, or returned io.EOF and the
                     \* loop continues: the bytes copied so far stay in the buffer
                     /\ r.st = "block" => r.n > 0
                     /\ p' = [p EXCEPT !.payload = got, !.wire = got]
                     /\ rx' = Drop(rx, r.n) /\ rxOf' = Drop(rxOf, r.n)
                     /\ UNCHANGED <<impl, device, detected, sent, rxEOF, tx, pc, req, res,
                                    handed, sendRet, packetMu, bw, Log, logOpen, info,
                                    crashed, quicChannel, rdPc, rdVal,
                                    QuicBlackbox, calls, unsol, conforming,
                                    dropped>>

\* readPacket: one turn of the sub-frame loop of a streaming packet
ProtoReadSub(c) ==
    /\ ~crashed /\ impl = "proto" /\ pc[c] = "stream"
    /\ LET h == readHeader(rx, rxEOF)
       IN  /\ h.st # "block"
           /\ IF h.st = "err" THEN ProtoFail(c, h.err, h.n)
              ELSE IF h.len = 0
              THEN \* bw.Flush(); w.Close(): Flush writes a non-empty buffer to
                   \* the pipe, whose read end nobody reads before read() returns
                   IF bw = <<>>
                   THEN ProtoDeliver(c, [p EXCEPT !.payload = <<>>], 4)
                   ELSE /\ pc' = [pc EXCEPT ![c] = "flush"]
                        /\ rx' = Drop(rx, 4) /\ rxOf' = Drop(rxOf, 4)
                        /\ UNCHANGED <<impl, device, detected, sent, rxEOF, tx, req, res, handed, sendRet,
                                       packetMu, p, bw, Log, logOpen, info,
                                       crashed, quicChannel, rdPc, rdVal,
                                       QuicBlackbox, calls, unsol, conforming,
                                       dropped>>
              ELSE IF Len(rx) >= 4 + h.len
              THEN /\ bw' = bw \o SubSeq(rx, 5, 4 + h.len)
                   /\ p' = [p EXCEPT !.wire = p.wire \o SubSeq(rx, 5, 4 + h.len)]
                   /\ rx' = Drop(rx, 4 + h.len) /\ rxOf' = Drop(rxOf, 4 + h.len)
                   /\ UNCHANGED <<impl, device, detected, sent, rxEOF, tx, pc, req, res, handed, sendRet,
                                  packetMu, Log, logOpen, info, crashed,
                                  quicChannel, rdPc, rdVal, QuicBlackbox, calls,
                                  unsol, conforming, dropped>>
              ELSE rxEOF /\ ProtoFail(c, Err("EOF"), Len(rx))

(* ----------------------- Controller: pure parts ------------------------ *)
\* SendQUIC, once the channel has handed over packet k
CtrlSendResult(k) ==
    IF k.flag = QuicFlagError
    THEN LET d == CborDecodeString(k.payload)
         IN  IF d.ok THEN [pkt |-> NoPacket, err |-> MsgErr(d.val)]
             ELSE [pkt |-> NoPacket, err |-> Err("decode")]
    ELSE [pkt |-> k, err |-> NoErr]

\* GetQUIC / SetQUIC on the packet SendQUIC returned
CtrlValueResult(tag, v0, payload) ==
    LET t == CborDecodeUint(payload)
        d == CborDecodeUint(t.rest)
    IN  IF ~t.ok THEN [err |-> Err("decode"), v |-> v0]
        ELSE IF tag # t.val THEN [err |-> Err("tagMismatch"), v |-> v0]
        ELSE IF ~d.ok THEN [err |-> Err("decode"), v |-> v0]
        ELSE [err |-> NoErr, v |-> d.val]

\* (mutant) one channel for all commands
CtrlReceiversAnyCmd(cmd) == {w \in Callers : pc[w] = "wait"}

\* (ghost) the tag a request carries once its caller has timed out: it
\* replaces the request's id on the bytes in flight and keeps the number of
\* calls issued by then
StaleTag(at) == 0 - (at + 1)
IsStale(rid) == rid < 0
TimedOutAt(rid) == (0 - rid) - 1

\* the callers blocked in SendQUIC's select on quicChannel[cmd]
CtrlReceivers(cmd) ==
    {w \in Callers : pc[w] = "wait" /\ req[w].cmd = cmd /\ cmd \in quicChannel}

(* ----------------------- Controller: operations ------------------------ *)
\* GetQUIC / SetQUIC up to SendQUIC's hand-over of the frame to writeChannel
CtrlSendQUIC(c, op, tag) ==
    /\ ~crashed /\ impl = "ctrl" /\ MayCall(c)
    /\ LET r == NewReq(op, tag)
           data == RequestData(op, tag)
       IN  /\ tx' = Append(tx, [bytes |-> EncodeHeader(r.cmd, Len(data)) \o data,
                                rid |-> r.rid])
           /\ req' = [req EXCEPT ![c] = r]
           /\ res' = [res EXCEPT ![c] = [err |-> NoErr, v |-> r.val]]
           /\ quicChannel' = quicChannel \cup {r.cmd}
    /\ pc' = [pc EXCEPT ![c] = "sent"]
    /\ calls' = calls + 1
    /\ UNCHANGED <<impl, device, detected, sent, rx, rxOf, rxEOF, handed, sendRet, packetMu, p, bw, Log,
                   logOpen, info, crashed, rdPc, rdVal, QuicBlackbox, unsol,
                   conforming, dropped>>

\* SendQUIC reaches its select and waits on quicChannel[cmd]
CtrlSelect(c) ==
    /\ ~crashed /\ impl = "ctrl" /\ pc[c] = "sent"
    /\ pc' = [pc EXCEPT ![c] = "wait"]
    /\ UNCHANGED <<impl, device, detected, sent, rx, rxOf, rxEOF, tx, req, res, handed, sendRet, packetMu,
                   p, bw, Log, logOpen, info, crashed, quicChannel, rdPc, rdVal,
                   QuicBlackbox, calls, unsol, conforming, dropped>>

\* SendQUIC's select takes the time.After branch
CtrlTimeout(c) ==
    /\ ~crashed /\ impl = "ctrl" /\ pc[c] = "wait"
    /\ pc' = [pc EXCEPT ![c] = "done"]
    /\ res' = [res EXCEPT ![c] = [err |-> Err("timeout"), v |-> req[c].val]]
    /\ tx' = [i \in DOMAIN tx |->
                 IF tx[i].rid = req[c].rid
                 THEN [tx[i] EXCEPT !.rid = StaleTag(calls)] ELSE tx[i]]
    /\ rxOf' = [i \in DOMAIN rxOf |->
                   IF rxOf[i] = req[c].rid THEN StaleTag(calls) ELSE rxOf[i]]
    /\ UNCHANGED <<impl, device, detected, sent, rx, rxEOF, req, handed, sendRet, packetMu, p,
                   bw, Log, logOpen, info, crashed, quicChannel, rdPc, rdVal,
                   QuicBlackbox, calls, unsol, conforming, dropped>>

\* the select of caller w receives packet k: SendQUIC and GetQUIC/SetQUIC finish
CtrlDeliver(w, k) ==
    LET sr == CtrlSendResult(k)
    IN  /\ handed' = [handed EXCEPT ![w] = k]
        /\ sendRet' = [sendRet EXCEPT ![w] = sr.pkt]
        /\ res' = [res EXCEPT ![w] =
                     IF sr.err # NoErr THEN [err |-> sr.err, v |-> req[w].val]
                     ELSE CtrlValueResult(req[w].tag, req[w].val, sr.pkt.payload)]
        /\ pc' = [pc EXCEPT ![w] = "done"]

\* ReadQUIC, called once the magic byte of a frame has been seen: header,
\* payload and the switch on the command
ReadQUIC ==
    /\ ~crashed /\ impl = "ctrl" /\ rdPc = "read"
    /\ Len(rx) >= 4 /\ rx[1] = Magic
    /\ LET cmd == DecodeCmd(rx[2])
           flag == DecodeFlag(rx[2])
           payloadLen == DecodeLen(rx[3], rx[4])
           packet == [ok |-> TRUE, cmd |-> cmd, flag |-> flag, len |-> payloadLen,
                      payload |-> SubSeq(rx, 5, 4 + payloadLen),
                      wire |-> SubSeq(rx, 5, 4 + payloadLen), rid |-> rxOf[1]]
       IN  /\ Len(rx) >= 4 + payloadLen
           /\ rx' = Drop(rx, 4 + payloadLen) /\ rxOf' = Drop(rxOf, 4 + payloadLen)
           /\ IF cmd = QuicCmdLog
              THEN LET d == CborDecodeString(packet.payload)
                   IN  /\ crashed' = ~d.ok
                       /\ rdPc' = IF d.ok THEN "push" ELSE rdPc
                       /\ rdVal' = d.val
                       /\ UNCHANGED <<pc, res, handed, sendRet, dropped, QuicBlackbox>>
              ELSE IF cmd = QuicCmdBlackbox
              THEN \* log.Fatal unless the payload decodes into a Blackbox struct;
                   \* then QuicBlackbox <- *val, a blocking send
                   /\ crashed' = ~CborDecodeMap(packet.payload)
                   /\ CborDecodeMap(packet.payload) => QuicBlackbox < BlackboxCap
                   /\ QuicBlackbox' = IF CborDecodeMap(packet.payload)
                                       THEN QuicBlackbox + 1 ELSE QuicBlackbox
                   /\ UNCHANGED <<pc, res, handed, sendRet, dropped, rdPc, rdVal>>
              ELSE /\ IF CtrlReceivers(cmd) # {}
                      THEN /\ \E w \in CtrlReceivers(cmd) : CtrlDeliver(w, packet)
                           /\ UNCHANGED dropped
                      ELSE /\ dropped' = {[rid |-> packet.rid, late |-> IsStale(packet.rid)]}
                           /\ UNCHANGED <<pc, res, handed, sendRet>>
                   /\ UNCHANGED <<crashed, rdPc, rdVal, QuicBlackbox>>
    /\ UNCHANGED <<impl, device, detected, sent, rxEOF, tx, req, packetMu, p, bw, Log, logOpen, info,
                   quicChannel, calls, unsol, conforming>>

\* ReadQUIC's QuicLog <- *val: a blocking send on the buffered channel
CtrlPushLog ==
    /\ ~crashed /\ impl = "ctrl" /\ rdPc = "push"
    /\ Len(Log) < LogCap
    /\ Log' = Append(Log, rdVal)
    /\ rdPc' = "read" /\ rdVal' = <<>>
    /\ UNCHANGED <<impl, device, detected, sent, rx, rxOf, rxEOF, tx, pc, req, res, handed, sendRet,
                   packetMu, p, bw, logOpen, info, crashed, quicChannel,
                   QuicBlackbox, calls, unsol, conforming, dropped>>

\* the loop around ReadQUIC: a byte that is not the magic is skipped
CtrlResync ==
    /\ ~crashed /\ impl = "ctrl" /\ rdPc = "read"
    /\ rx # <<>> /\ rx[1] # Magic
    /\ rx' = Tail(rx) /\ rxOf' = Tail(rxOf)
    /\ UNCHANGED <<impl, device, detected, sent, rxEOF, tx, pc, req, res, handed, sendRet, packetMu, p, bw,
                   Log, logOpen, info, crashed, quicChannel, rdPc, rdVal,
                   QuicBlackbox, calls, unsol, conforming, dropped>>

(* ------------------------------ the device ----------------------------- *)
\* one frame on the wire: magic, flag and command, big-endian length, payload
MkFrame(flag, cmd, payload) ==
    <<Magic, flag * 32 + cmd, Len(payload) \div 256, Len(payload) % 256>> \o payload

OtherTag(t) == IF t = QuicValInfo THEN QuicValProfile ELSE QuicValInfo

\* the bytes the device answers request frame f with
ReplyBytes(kind, f) ==
    LET cmd == DecodeCmd(f[2])
        t == CborDecodeUint(Drop(f, 4)).val
        end == MkFrame(QuicFlagStreaming, cmd, <<>>)
    IN  CASE kind = "ok" -> MkFrame(QuicFlagNone, cmd, CborUint(t) \o CborUint(DevVal))
          [] kind = "badtag" ->
                MkFrame(QuicFlagNone, cmd, CborUint(OtherTag(t)) \o CborUint(DevVal))
          [] kind = "error" -> MkFrame(QuicFlagError, cmd, CborString(ErrText))
          [] kind = "errbad" -> MkFrame(QuicFlagError, cmd, <<255>>)
          [] kind = "exit" -> MkFrame(QuicFlagExit, cmd, CborUint(t) \o CborUint(DevVal))
          [] kind = "stream0" -> MkFrame(QuicFlagStreaming, cmd, <<>>) \o end
          [] kind = "v1" ->
                MkFrame(QuicFlagNone, cmd, CborUint(t) \o CborUint(QuicProtocolVersion1))
          [] kind = "stream1" -> MkFrame(QuicFlagStreaming, cmd, CborUint(t)) \o end
          [] OTHER -> MkFrame(QuicFlagStreaming, cmd, CborUint(t))
                        \o MkFrame(QuicFlagStreaming, cmd, CborUint(DevVal)) \o end

DeviceWrites(bytes, rid) ==
    /\ ~crashed /\ Len(rx) <= MaxBacklog
    /\ rx' = rx \o bytes
    /\ rxOf' = rxOf \o Rep(Len(bytes), rid)

\* the device answers the oldest request it has not seen yet
PeerReply(kind) ==
    /\ kind \in device.replies
    /\ tx # <<>>
    /\ DeviceWrites(ReplyBytes(kind, Head(tx).bytes), Head(tx).rid)
    /\ tx' = Tail(tx)
    /\ UNCHANGED <<impl, device, detected, sent, rxEOF, pc, req, res, handed, sendRet, packetMu, p, bw, Log,
                   logOpen, info, crashed, quicChannel, rdPc, rdVal, QuicBlackbox,
                   calls, unsol, conforming, dropped>>

\* the device never answers the oldest request
PeerDrop ==
    /\ ~crashed /\ device.drops
    /\ tx # <<>>
    /\ tx' = Tail(tx)
    /\ conforming' = FALSE
    /\ UNCHANGED <<impl, device, detected, sent, rx, rxOf, rxEOF, pc, req, res, handed, sendRet, packetMu,
                   p, bw, Log, logOpen, info, crashed, quicChannel, rdPc, rdVal,
                   QuicBlackbox, calls, unsol, dropped>>

\* the device pushes a log line
PeerLog(limit) ==
    /\ "log" \in device.pushes /\ unsol < limit
    /\ DeviceWrites(MkFrame(QuicFlagNone, QuicCmdLog, CborString(LogText)), 0)
    /\ unsol' = unsol + 1
    /\ conforming' = FALSE
    /\ UNCHANGED <<impl, device, detected, sent, rxEOF, tx, pc, req, res, handed, sendRet, packetMu, p, bw,
                   Log, logOpen, info, crashed, quicChannel, rdPc, rdVal,
                   QuicBlackbox, calls, dropped>>

\* line noise: a byte that is not the magic
PeerNoise ==
    /\ "noise" \in device.pushes /\ unsol < MaxUnsolicited
    /\ DeviceWrites(<<0>>, 0)
    /\ unsol' = unsol + 1
    /\ conforming' = FALSE
    /\ UNCHANGED <<impl, device, detected, sent, rxEOF, tx, pc, req, res, handed, sendRet, packetMu, p, bw,
                   Log, logOpen, info, crashed, quicChannel, rdPc, rdVal,
                   QuicBlackbox, calls, dropped>>

\* a frame whose command is outside the enumeration
PeerBadCmd(cmd) ==
    /\ "badcmd" \in device.pushes /\ unsol < MaxUnsolicited
    /\ DeviceWrites(MkFrame(QuicFlagNone, cmd, CborUint(DevVal)), 0)
    /\ unsol' = unsol + 1
    /\ conforming' = FALSE
    /\ UNCHANGED <<impl, device, detected, sent, rxEOF, tx, pc, req, res, handed, sendRet, packetMu, p, bw,
                   Log, logOpen, info, crashed, quicChannel, rdPc, rdVal,
                   QuicBlackbox, calls, dropped>>

\* the transport ends
PeerEOF ==
    /\ ~crashed /\ "eof" \in device.pushes /\ ~rxEOF /\ unsol < MaxUnsolicited
    /\ rxEOF' = TRUE
    /\ unsol' = unsol + 1
    /\ conforming' = FALSE
    /\ UNCHANGED <<impl, device, detected, sent, rx, rxOf, tx, pc, req, res, handed, sendRet, packetMu, p,
                   bw, Log, logOpen, info, crashed, quicChannel, rdPc, rdVal,
                   QuicBlackbox, calls, dropped>>

\* an unsolicited frame or stray bytes from a device that pushes such
Push(bytes) ==
    /\ unsol < MaxUnsolicited
    /\ DeviceWrites(bytes, 0)
    /\ unsol' = unsol + 1
    /\ conforming' = FALSE
    /\ UNCHANGED <<impl, device, detected, sent, rxEOF, tx, pc, req, res, handed, sendRet,
                   packetMu, p, bw, Log, logOpen, info, crashed, quicChannel, rdPc,
                   rdVal, QuicBlackbox, calls, dropped>>

\* a Log packet whose payload is no string
PeerBadLog ==
    /\ "badlog" \in device.pushes
    /\ Push(MkFrame(QuicFlagNone, QuicCmdLog, <<255>>))

\* a Blackbox packet, its payload a map or garbage
PeerBlackbox(payload) ==
    /\ "blackbox" \in device.pushes
    /\ Push(MkFrame(QuicFlagNone, QuicCmdBlackbox, payload))

\* a well-formed packet of a command nobody asked for
PeerCalImu ==
    /\ "calimu" \in device.pushes
    /\ Push(MkFrame(QuicFlagNone, QuicCmdCalImu, <<>>))

\* the device answers the oldest request, but the stream ends one byte short
\* of the payload the reply's header announces
PeerShort ==
    /\ "short" \in device.pushes /\ unsol < MaxUnsolicited /\ ~rxEOF
    /\ tx # <<>>
    /\ LET full == ReplyBytes("ok", Head(tx).bytes)
       IN  DeviceWrites(Take(full, Len(full) - 1), Head(tx).rid)
    /\ tx' = Tail(tx)
    /\ rxEOF' = TRUE
    /\ unsol' = unsol + 1
    /\ conforming' = FALSE
    /\ UNCHANGED <<impl, device, detected, sent, pc, req, res, handed, sendRet, packetMu,
                   p, bw, Log, logOpen, info, crashed, quicChannel, rdPc, rdVal,
                   QuicBlackbox, calls, dropped>>

(* --------------------------- specifications ---------------------------- *)
Ops == {"get", "set"}

Next ==
    \/ \E c \in Callers, op \in Ops : ProtoSend(c, op, TagOf(c))
    \/ \E c \in Callers : ProtoSend(c, "detect", QuicValInfo)
    \/ \E c \in Callers : Close(c)
    \/ \E c \in Callers : CallReturn(c)
    \/ \E c \in Callers : ProtoLock(c)
    \/ \E c \in Callers : ProtoReadHeader(c)
    \/ \E c \in Callers : ProtoReadPayload(c)
    \/ \E c \in Callers : ProtoReadSub(c)
    \/ \E c \in Callers, op \in Ops : CtrlSendQUIC(c, op, TagOf(c))
    \/ \E c \in Callers : CtrlSelect(c)
    \/ \E c \in Callers : CtrlTimeout(c)
    \/ ReadQUIC
    \/ CtrlPushLog
    \/ CtrlResync
    \/ \E kind \in ReplyKinds : PeerReply(kind)
    \/ PeerDrop
    \/ PeerLog(MaxUnsolicited)
    \/ PeerNoise
    \/ \E cmd \in {QuicCmdInvalid, QuicCmdMax} : PeerBadCmd(cmd)
    \/ PeerEOF
    \/ PeerBadLog
    \/ \E payload \in {<<160>>, <<255>>} : PeerBlackbox(payload)
    \/ PeerCalImu
    \/ PeerShort

Spec == Init /\ [][Next]_vars

\* the framing of a request, for payloads of any length: what Send writes to
\* the transport for n bytes of data (header, then io.Copy of all of buf)
SendFrame(cmd, n) ==
    [ok |-> TRUE, n |-> n, hdr |-> EncodeHeader(cmd, n), written |-> n, err |-> NoErr]
\* and what SendQUIC hands to the write channel (header, then append(buf, data...))
SendQUICFrame(cmd, n) ==
    [ok |-> TRUE, n |-> n, hdr |-> EncodeHeader(cmd, n), written |-> n, err |-> NoErr]

PayloadLengths == (0..MaxExtra) \cup ((MaxPayload - MaxExtra)..(MaxPayload + 1 + MaxExtra))

ProtoWrite(cmd, n) ==
    /\ impl = "proto"
    /\ sent' = SendFrame(cmd, n)
    /\ UNCHANGED <<impl, device, detected, rx, rxOf, rxEOF, tx, pc, req, res, handed,
                   sendRet, packetMu, p, bw, Log, logOpen, info, crashed, quicChannel,
                   rdPc, rdVal, QuicBlackbox, calls, unsol, conforming, dropped>>

CtrlWrite(cmd, n) ==
    /\ impl = "ctrl"
    /\ sent' = SendQUICFrame(cmd, n)
    /\ UNCHANGED <<impl, device, detected, rx, rxOf, rxEOF, tx, pc, req, res, handed,
                   sendRet, packetMu, p, bw, Log, logOpen, info, crashed, quicChannel,
                   rdPc, rdVal, QuicBlackbox, calls, unsol, conforming, dropped>>

InitEnc == Init /\ device.name = "answers"

NextEnc ==
    \/ \E cmd \in QuicCmdGet..QuicCmdBlackbox, n \in PayloadLengths : ProtoWrite(cmd, n)
    \/ \E cmd \in QuicCmdGet..QuicCmdBlackbox, n \in PayloadLengths : CtrlWrite(cmd, n)

SpecEnc == InitEnc /\ [][NextEnc]_vars

\* the log flood: a device that only pushes log lines, on a queue nobody reads
InitLog == Init /\ device.name = "logs"

\* a device that streams log lines, one frame on the line at a time
PeerFlood == rx = <<>> /\ PeerLog(MaxFlood)

NextLog ==
    \/ \E c \in Callers, op \in Ops : ProtoSend(c, op, TagOf(c))
    \/ \E c \in Callers : ProtoLock(c)
    \/ \E c \in Callers : ProtoReadHeader(c)
    \/ \E c \in Callers : ProtoReadPayload(c)
    \/ ReadQUIC
    \/ CtrlPushLog
    \/ PeerFlood

SpecLog == InitLog /\ [][NextLog]_vars

(* ------------------------------ the claims ----------------------------- *)
\* C1: a Get or Set reply whose first decoded element is a tag other than the
\* requested one makes the call return the tag-mismatch error and leaves the
\* caller's target as it was; the target changes only when the tags agree.
C1_TagMismatchRejected ==
    \A c \in Callers :
        (pc[c] = "done" /\ handed[c].ok /\ handed[c].flag # QuicFlagError)
        => LET t == CborDecodeUint(handed[c].payload)
           IN  /\ (t.ok /\ t.val # req[c].tag)
                    => (res[c].err = Err("tagMismatch") /\ res[c].v = req[c].val)
               /\ (res[c].v # req[c].val) => (t.ok /\ t.val = req[c].tag)

C1_Witness ==
    \E c \in Callers :
        /\ pc[c] = "done" /\ handed[c].ok /\ handed[c].flag = QuicFlagNone
        /\ handed[c].payload = CborUint(OtherTag(req[c].tag)) \o CborUint(DevVal)
        /\ res[c].err = Err("tagMismatch") /\ res[c].v = req[c].val

\* C2: a reply with the Error flag makes Send / SendQUIC return no packet and
\* an error that carries exactly the string of the reply's payload (a decode
\* error when the payload is no string), and GetValue / SetValue / GetQUIC /
\* SetQUIC return it with the caller's target untouched.
C2_ErrorFlagSurfaced ==
    \A c \in Callers :
        (pc[c] = "done" /\ handed[c].ok /\ handed[c].flag = QuicFlagError)
        => /\ ~sendRet[c].ok
           /\ res[c].err # NoErr
           /\ (handed[c].payload = CborString(ErrText)) => res[c].err = MsgErr(ErrText)
           /\ CborDecodeString(handed[c].payload).ok
                => res[c].err = MsgErr(CborDecodeString(handed[c].payload).val)
           /\ res[c].v = req[c].val

C2_Witness ==
    \E c \in Callers :
        /\ pc[c] = "done" /\ handed[c].ok /\ handed[c].flag = QuicFlagError
        /\ res[c].err = MsgErr(ErrText) /\ ~sendRet[c].ok

\* a step in which caller c's call returns the timeout error
TimeoutReturn(c) == Next /\ pc'[c] = "done" /\ res'[c].err = Err("timeout")

\* C3: a request that gets no reply returns a timeout error instead of
\* blocking: whenever a caller waits for its reply (in read() on the transport,
\* or in SendQUIC's select) and neither a request nor a byte is on the line,
\* the step that returns the timeout error to it can be taken.
C3_NoReplyTimesOut ==
    \A c \in Callers :
        (~crashed /\ pc[c] \in {"hdr", "wait"} /\ rx = <<>> /\ tx = <<>> /\ ~rxEOF)
        => ENABLED TimeoutReturn(c)

\* C4: with a device that answers every request once with a reply of the same
\* command, every packet Send returns to a caller carries the command that
\* caller sent.
C4_EachCallerGetsOwnReply ==
    \A c \in Callers :
        (impl = "proto" /\ conforming /\ pc[c] = "done" /\ sendRet[c].ok)
        => sendRet[c].cmd = req[c].cmd

\* the payload bytes of the Log frame whose last bytes the reader is about to take
LogBytes == p.payload \o Take(rx, Min(Len(rx), p.len - Len(p.payload)))

\* C5: on an open session, a Log packet read while a call is pending is
\* consumed by the reader: the call does not return, the reader goes on to the
\* next header still holding the mutex, and the decoded line is appended to
\* the Log queue once (not at all when the queue is full); a Log packet is
\* never the packet handed to Send.
C5_LogConsumedOnce ==
    /\ [](\A c \in Callers : (impl = "proto" /\ handed[c].ok) => handed[c].cmd # QuicCmdLog)
    /\ [][\A c \in Callers :
            ( /\ impl = "proto" /\ pc[c] = "payload" /\ pc'[c] # "payload"
              /\ p.cmd = QuicCmdLog /\ p.flag # QuicFlagStreaming
              /\ logOpen /\ CborDecodeString(LogBytes).ok )
            => /\ pc'[c] = "hdr" /\ packetMu' = c
               /\ handed'[c] = handed[c] /\ res'[c] = res[c] /\ sendRet'[c] = sendRet[c]
               /\ Log' = IF Len(Log) < LogCap
                         THEN Append(Log, CborDecodeString(LogBytes).val) ELSE Log
               /\ (LogBytes = CborString(LogText) /\ Len(Log) < LogCap)
                     => Log' = Append(Log, LogText)
               /\ Len(rx') = Len(rx) - (p.len - Len(p.payload))]_vars

C5_Witness ==
    \E c \in Callers :
        /\ impl = "proto" /\ calls = 1 /\ pc[c] = "done"
        /\ Log = <<LogText>>
        /\ handed[c].ok /\ handed[c].cmd = req[c].cmd /\ handed[c].rid = req[c].rid
        /\ res[c].err = NoErr /\ res[c].v = DevVal

\* the reader has taken the zero-length terminator of a streaming packet
TerminatorRead(c) ==
    \/ pc[c] = "flush"
    \/ pc[c] = "done" /\ handed[c].ok /\ handed[c].flag = QuicFlagStreaming

\* C6: once the terminator sub-frame of a streaming packet has been read,
\* read() has returned the packet and released the mutex, and the packet's
\* payload is the first frame's payload followed by every sub-frame's, in order.
C6_StreamingReturns ==
    \A c \in Callers :
        (impl = "proto" /\ TerminatorRead(c))
        => /\ pc[c] = "done" /\ packetMu # c
           /\ handed[c].payload = handed[c].wire

C8_LogPushNeverBlocks ==
    /\ Len(Log) <= LogCap
    /\ rdPc = "push" => ENABLED CtrlPushLog

\* C9: readHeader skips the bytes in front of the magic byte, so it never
\* fails on them: its only failure is the transport's read error.
C9_SkipsToMagic ==
    \A c \in Callers :
        (impl = "proto" /\ pc[c] = "done") => res[c].err # Err("ErrInvalidMagic")

\* C10: a frame whose command is Invalid or at least Max makes readPacket
\* return ErrInvalidCommand: the pending call fails with it, no packet is
\* handed to Send, nothing is pushed onto the Log queue; and no packet handed
\* to Send ever carries such a command.
C10_InvalidCommandRejected ==
    /\ [](\A c \in Callers :
            (impl = "proto" /\ handed[c].ok)
            => (handed[c].cmd # QuicCmdInvalid /\ handed[c].cmd < QuicCmdMax))
    /\ [][\A c \in Callers :
            ( /\ impl = "proto" /\ pc[c] = "hdr" /\ pc'[c] # "hdr"
              /\ Len(rx) >= 4 /\ rx[1] = Magic
              /\ (DecodeCmd(rx[2]) = QuicCmdInvalid \/ DecodeCmd(rx[2]) >= QuicCmdMax) )
            => /\ pc'[c] = "done" /\ res'[c].err = Err("ErrInvalidCommand")
               /\ ~handed'[c].ok /\ ~sendRet'[c].ok
               /\ Log' = Log /\ packetMu' = 0]_vars

C10_Witness ==
    \E c \in Callers :
        /\ impl = "proto" /\ pc[c] = "done" /\ res[c].err = Err("ErrInvalidCommand")
        /\ ~handed[c].ok /\ Log = <<>>

\* a step in which caller c's call returns ErrShortRead
ShortReadReturn(c) == Next /\ pc'[c] = "done" /\ res'[c].err = Err("ErrShortRead")

\* C11: when the stream has ended with fewer payload bytes than the header of
\* a non-streaming frame announced, readPacket returns ErrShortRead: the step
\* that returns it to the caller reading the payload can be taken.
C11_ShortReadTerminates ==
    \A c \in Callers :
        ( /\ impl = "proto" /\ ~crashed /\ pc[c] = "payload"
          /\ p.flag # QuicFlagStreaming
          /\ rxEOF /\ Len(p.payload) + Len(rx) < p.len )
        => ENABLED ShortReadReturn(c)

\* C12: a Log packet whose payload is no string is dropped: read() never
\* returns a decode error to the pending call (which goes on to get its
\* reply), and the controller's process survives it.
C12_BadLogDropped ==
    /\ \A c \in Callers :
          (impl = "proto" /\ pc[c] = "done" /\ ~handed[c].ok) => res[c].err # Err("decode")
    /\ (impl = "ctrl" /\ "badlog" \in device.pushes) => ~crashed

\* the packet handed to caller c's Send is a good answer to an info Get: no
\* Error flag, the Info tag echoed, and a value after it
InfoGetSucceeded(c) ==
    /\ handed[c].ok /\ handed[c].flag # QuicFlagError
    /\ CborDecodeUint(handed[c].payload).ok
    /\ CborDecodeUint(handed[c].payload).val = QuicValInfo
    /\ CborDecodeUint(CborDecodeUint(handed[c].payload).rest).ok

\* C13: Detect returns true exactly when its info Get succeeded and false
\* for every other outcome (no packet, Error flag, other tag, undecodable
\* payload); the cached info becomes the decoded one on success, stays what it
\* was on failure, and is touched by no other call.
C13_DetectReducesToBoolean ==
    /\ [](\A c \in Callers :
            (impl = "proto" /\ pc[c] = "done" /\ req[c].op = "detect")
            => /\ detected[c] = (IF InfoGetSucceeded(c) THEN "true" ELSE "false")
               /\ (detected[c] = "true") <=> (res[c].err = NoErr))
    /\ [][\A c \in Callers :
            (impl = "proto" /\ pc[c] # "done" /\ pc'[c] = "done")
            => info' = IF req[c].op = "detect" /\ InfoGetSucceeded(c)'
                       THEN CborDecodeUint(CborDecodeUint(handed'[c].payload).rest).val
                       ELSE info]_vars
    /\ [][(\A c \in Callers : pc'[c] = "done" => pc[c] = "done") => info' = info]_vars

\* a Detect that failed after an earlier one had cached the device's info
C13_Witness ==
    \E c \in Callers :
        /\ impl = "proto" /\ pc[c] = "done" /\ req[c].op = "detect"
        /\ detected[c] = "false" /\ res[c].err = Err("tagMismatch")
        /\ info = DevVal

\* C14: sending a payload longer than 65535 bytes fails: the call returns an
\* error, and no frame is written whose length field differs from the number
\* of payload bytes written after the header.
C14_OversizePayloadFails ==
    (sent.ok /\ sent.n > MaxPayload)
    => /\ sent.err # NoErr
       /\ sent.hdr # <<>> => DecodeLen(sent.hdr[3], sent.hdr[4]) = sent.written

\* C15: in the controller, a caller whose reply the reader received before
\* the caller's timeout fired does not time out: no reply to its request was
\* dropped while the request had not timed out.
C15_InTimeReplyDelivered ==
    \A c \in Callers :
        (impl = "ctrl" /\ pc[c] = "done" /\ res[c].err = Err("timeout"))
        => ~\E d \in dropped : d.rid = req[c].rid /\ ~d.late

\* caller c is inside read()
InRead(c) == pc[c] \in {"hdr", "payload", "stream", "flush", "pipeRead"}

\* C16: at most one caller is inside read(), and it is the holder of
\* packetMu; every byte taken from the transport is taken by that caller, no
\* other caller moving in the same step; and while a packet is partly read the
\* mutex does not pass to another caller: it is released only with the packet
\* complete or given up.
C16_ReadsSerialised ==
    /\ [](impl = "proto" =>
            /\ \A c, d \in Callers : (InRead(c) /\ InRead(d)) => c = d
            /\ \A c \in Callers : InRead(c) <=> packetMu = c
            /\ p.ok => packetMu # 0)
    /\ [][(impl = "proto" /\ Len(rx') < Len(rx))
          => /\ packetMu # 0 /\ InRead(packetMu)
             /\ \A d \in Callers \ {packetMu} : pc'[d] = pc[d]]_vars
    /\ [][(impl = "proto" /\ p.ok /\ packetMu' # packetMu)
          => (packetMu' = 0 /\ ~p'.ok)]_vars

\* one caller is between the sub-frames of a streaming packet while the other
\* waits for the mutex with bytes on the line
C16_Witness ==
    \E c, d \in Callers :
        /\ impl = "proto" /\ c # d
        /\ pc[c] = "stream" /\ p.ok /\ p.wire # <<>> /\ packetMu = c
        /\ pc[d] = "sent" /\ rx # <<>>

\* C17: with a single caller (one call in the whole session), the packet
\* Send returns carries the command that was sent.
C17_SendReturnsOwnCommand ==
    \A c \in Callers :
        (impl = "proto" /\ calls = 1 /\ pc[c] = "done" /\ sendRet[c].ok)
        => sendRet[c].cmd = req[c].cmd

\* C18: once the Log channel is closed, nothing closes it again or sends on
\* it: the session never dies of a close of, or a send on, the closed channel.
C18_ClosedChannelLeftAlone ==
    impl = "proto" => ~(crashed /\ ~logOpen)

\* C19: a (non-streaming) Blackbox packet read while no info is cached, or
\* while the cached protocol version is 1, is consumed by the reader whether
\* or not its payload decodes: the pending call neither returns nor fails and
\* the reader goes on to the next header; read while another version is
\* cached, it is the packet handed to the waiting caller's Send.
C19_BlackboxByVersion ==
    [][\A c \in Callers :
         ( /\ impl = "proto" /\ pc[c] = "payload" /\ pc'[c] # "payload"
           /\ p.cmd = QuicCmdBlackbox /\ p.flag # QuicFlagStreaming )
         => IF info = 0 \/ info = QuicProtocolVersion1
            THEN /\ pc'[c] = "hdr" /\ packetMu' = c
                 /\ handed'[c] = handed[c] /\ res'[c] = res[c] /\ sendRet'[c] = sendRet[c]
                 /\ Len(rx') = Len(rx) - (p.len - Len(p.payload))
            ELSE /\ pc'[c] = "done" /\ packetMu' = 0
                 /\ handed'[c].ok /\ handed'[c].cmd = QuicCmdBlackbox]_vars

\* an Info call has cached a version other than 1, and a later call was
\* handed a Blackbox packet
C19_Witness ==
    \E c \in Callers :
        /\ impl = "proto" /\ info = DevVal /\ info # QuicProtocolVersion1
        /\ pc[c] = "done" /\ handed[c].ok /\ handed[c].cmd = QuicCmdBlackbox

\* C20: after readPacket has rejected a frame with ErrInvalidCommand, the
\* frame's payload is off the transport: with that frame the only unsolicited
\* thing the device wrote, what is left unread is nothing or starts with the
\* magic byte of the next frame.
C20_RejectedFrameConsumed ==
    \A c \in Callers :
        ( /\ impl = "proto" /\ unsol = 1 /\ pc[c] = "done"
          /\ res[c].err = Err("ErrInvalidCommand") )
        => (rx = <<>> \/ rx[1] = Magic)

====
